---- MODULE Spec2Model ----
(***************************************************************************)
(* A model of the pyexec process execution engine (package pyexec):        *)
(* script resolution (findScript), interpreter selection                   *)
(* (getPythonCommand), argument marshaling, and the Buffered and Streaming *)
(* runners (ExecutePythonScript, ExecutePythonScriptRealtime and their     *)
(* WithUV variants).                                                       *)
(*                                                                         *)
(* Representation.                                                         *)
(*   - A file-system path is a sequence of components; it is absolute when *)
(*     its first component is "/".  The empty sequence is the empty string.*)
(*   - A script name is a sequence of one-character strings, so that the   *)
(*     derivation of the environment-variable name (ReplaceAll, ToUpper)   *)
(*     is computed character by character.                                 *)
(*   - A byte string is a sequence of one-character strings; NL is the     *)
(*     line terminator.                                                    *)
(*   - An error is the sequence of the parts of its message; the nil error *)
(*     is the empty sequence.                                              *)
(***************************************************************************)
EXTENDS Integers, Sequences, FiniteSets, TLC

(***************************************************************************)
(* Bounds of the model.                                                    *)
(***************************************************************************)
\* capacity of an OS pipe, in bytes
PipeCap == 2
\* bufio.MaxScanTokenSize scaled down: the largest buffer a Scanner grows to
MaxTokenSize == 3
\* the largest number of regular files present in the modelled file system
MaxFiles == 2

NL == "\n"

(***************************************************************************)
(* Values: byte slices and errors.                                         *)
(***************************************************************************)
NoError == <<>>
NilBytes == [isNil |-> TRUE, data |-> <<>>]
\* bytes.Buffer.Bytes(): the zero Buffer that was never written yields nil
BufferBytes(d) == [isNil |-> (d = <<>>), data |-> d]

RECURSIVE Str(_)
\* the Go string made of the characters of cs
Str(cs) == IF cs = <<>> THEN "" ELSE Head(cs) \o Str(Tail(cs))

\* string(b) / %s of some bytes, as one message part
Text(d) == Str(d)

(***************************************************************************)
(* Paths (path/filepath).                                                  *)
(***************************************************************************)
IsAbs(p) == p # <<>> /\ p[1] = "/"

RECURSIVE CleanAcc(_, _, _)
CleanAcc(rest, acc, rooted) ==
    IF rest = <<>> THEN acc
    ELSE LET c == Head(rest) IN
         IF c = "." \/ c = "" THEN CleanAcc(Tail(rest), acc, rooted)
         ELSE IF c = ".."
              THEN IF acc # <<>> /\ acc[Len(acc)] # ".."
                   THEN CleanAcc(Tail(rest), SubSeq(acc, 1, Len(acc) - 1), rooted)
                   ELSE IF rooted THEN CleanAcc(Tail(rest), acc, rooted)
                        ELSE CleanAcc(Tail(rest), Append(acc, ".."), rooted)
              ELSE CleanAcc(Tail(rest), Append(acc, c), rooted)

\* filepath.Clean: drops "." elements, resolves "..", "" becomes "."
Clean(p) ==
    IF IsAbs(p) THEN <<"/">> \o CleanAcc(Tail(p), <<>>, TRUE)
    ELSE LET r == CleanAcc(p, <<>>, FALSE) IN IF r = <<>> THEN <<".">> ELSE r

\* filepath.Join of two elements: empty elements are ignored, result is Cleaned
Join(a, b) == IF a \o b = <<>> THEN <<>> ELSE Clean(a \o b)

\* filepath.Dir: all but the last element, Cleaned
Dir(p) == IF p = <<>> THEN <<".">> ELSE Clean(SubSeq(p, 1, Len(p) - 1))

(***************************************************************************)
(* The environment of the process: file system, environment variables,     *)
(* working directory, executable and caller locations, executable search   *)
(* path.                                                                   *)
(***************************************************************************)
VARIABLES
    files,        \* the paths (absolute, clean) that are regular files
    env,          \* environment variables: name -> value
    getwdOK,      \* os.Getwd succeeds
    execOK,       \* os.Executable succeeds
    callerOK,     \* runtime.Caller(1) succeeds
    pathCmds,     \* the commands exec.LookPath resolves
    goos          \* runtime.GOOS

cwd == <<"/", "w">>
execPath == <<"/", "x", "server">>
currentFile == <<"/", "s", "t", "pyexec_test.go">>

envVars == <<files, env, getwdOK, execOK, callerOK, pathCmds, goos>>

\* os.Getenv of a path-valued variable: the value, or "" when it is not set
Getenv(key) == IF key \in DOMAIN env THEN env[key] ELSE <<>>

\* os.Getenv of a command-valued variable
GetenvCmd(key) == IF key \in DOMAIN env THEN env[key] ELSE ""

\* exec.LookPath succeeds
LookPathOK(file) == file \in pathCmds

\* the file the OS names by p: relative paths are taken from the working directory
Resolve(p) == IF IsAbs(p) THEN Clean(p) ELSE Clean(cwd \o p)

\* filepath.Abs
AbsOK(p) == IsAbs(p) \/ getwdOK
Abs(p) == IF IsAbs(p) THEN Clean(p) ELSE Join(cwd, p)

\* fileExists: os.Stat succeeds and the file is not a directory
fileExists(filename) == Resolve(filename) \in files

(***************************************************************************)
(* findScript.                                                             *)
(***************************************************************************)
ReplaceDot(c) == IF c = "." THEN "_" ELSE c
ToUpper(c) ==
    CASE c = "h" -> "H" [] c = "g" -> "G" [] c = "p" -> "P" [] c = "y" -> "Y"
      [] OTHER -> c

\* strings.ToUpper(strings.ReplaceAll(scriptName, ".", "_")) + "_PATH"
envVarSpecific(scriptName) ==
    Str([i \in 1..Len(scriptName) |-> ToUpper(ReplaceDot(scriptName[i]))]) \o "_PATH"

envVarDirs == "PYEXEC_SCRIPT_DIRS"

\* Absolutized without filepath.Abs: the candidate is returned as it was found
Absolutized_unchanged(p) == p

\* the path returned for a candidate that exists
Absolutized(p) == IF AbsOK(p) THEN Abs(p) ELSE p

RECURSIVE FirstExisting(_)
\* the first path of a list for which fileExists holds, or <<>>
FirstExisting(paths) ==
    IF paths = <<>> THEN <<>>
    ELSE IF fileExists(Head(paths)) THEN Head(paths)
         ELSE FirstExisting(Tail(paths))

\* filepath.SplitList of the search-path variable
SplitList(v) == v

\* step 2: the candidates of the search directories, in list order
DirCandidates(name) ==
    LET dirList == SplitList(Getenv(envVarDirs)) IN
    [i \in 1..Len(dirList) |-> Join(dirList[i], <<name>>)]

\* steps 3, 4, 5: possiblePaths, each Cleaned before it is checked
possiblePaths(name) ==
    LET rel == << <<name>>, Join(<<".">>, <<name>>) >>
        exe == IF execOK THEN << Join(Dir(execPath), <<name>>) >> ELSE <<>>
        cur == IF callerOK
               THEN << Join(Dir(currentFile), <<name>>),
                       Join(Dir(currentFile), <<"..", name>>) >>
               ELSE <<>>
        all == rel \o exe \o cur
    IN [i \in 1..Len(all) |-> Clean(all[i])]

\* notFoundError without the names of the variables that were checked
notFoundError_short(scriptName) ==
    << "script '", Str(scriptName), "' not found in any of the expected locations" >>

notFoundError(scriptName) ==
    << "script '", Str(scriptName),
       "' not found in any of the expected locations (checked env ",
       envVarSpecific(scriptName), ", env ", envVarDirs,
       ", cwd, executable dir, caller dir)" >>

\* findScript checking possiblePaths before the environment variables
findScript_cwdFirst(scriptName) ==
    LET name == Str(scriptName)
        specific == Getenv(envVarSpecific(scriptName))
        inDirs == FirstExisting(DirCandidates(name))
        inPossible == FirstExisting(possiblePaths(name))
    IN IF inPossible # <<>>
       THEN [path |-> Absolutized(inPossible), err |-> NoError]
       ELSE IF specific # <<>> /\ fileExists(specific)
            THEN [path |-> Absolutized(specific), err |-> NoError]
            ELSE IF inDirs # <<>>
                 THEN [path |-> Absolutized(inDirs), err |-> NoError]
                 ELSE [path |-> <<>>, err |-> notFoundError(scriptName)]

\* findScript failing on a specific variable that names no regular file
findScript_strictOverride(scriptName) ==
    LET name == Str(scriptName)
        specific == Getenv(envVarSpecific(scriptName))
        inDirs == FirstExisting(DirCandidates(name))
        inPossible == FirstExisting(possiblePaths(name))
    IN IF specific # <<>>
       THEN IF fileExists(specific)
            THEN [path |-> Absolutized(specific), err |-> NoError]
            ELSE [path |-> <<>>, err |-> notFoundError(scriptName)]
       ELSE IF inDirs # <<>>
            THEN [path |-> Absolutized(inDirs), err |-> NoError]
            ELSE IF inPossible # <<>>
                 THEN [path |-> Absolutized(inPossible), err |-> NoError]
                 ELSE [path |-> <<>>, err |-> notFoundError(scriptName)]

\* findScript(scriptName): [path, err]
findScript(scriptName) ==
    LET name == Str(scriptName)
        specific == Getenv(envVarSpecific(scriptName))
        inDirs == FirstExisting(DirCandidates(name))
        inPossible == FirstExisting(possiblePaths(name))
    IN IF specific # <<>> /\ fileExists(specific)
       THEN [path |-> Absolutized(specific), err |-> NoError]
       ELSE IF inDirs # <<>>
            THEN [path |-> Absolutized(inDirs), err |-> NoError]
            ELSE IF inPossible # <<>>
                 THEN [path |-> Absolutized(inPossible), err |-> NoError]
                 ELSE [path |-> <<>>, err |-> notFoundError(scriptName)]

(***************************************************************************)
(* getPythonCommand.                                                       *)
(***************************************************************************)
\* getPythonCommand using the override without looking it up
getPythonCommand_trustsOverride ==
    LET pythonCmd == GetenvCmd("PYTHON_COMMAND") IN
    IF pythonCmd # "" THEN pythonCmd
    ELSE IF LookPathOK("python3") THEN "python3"
         ELSE IF LookPathOK("python") THEN "python"
              ELSE "python"

getPythonCommand ==
    LET pythonCmd == GetenvCmd("PYTHON_COMMAND") IN
    IF pythonCmd # "" /\ LookPathOK(pythonCmd) THEN pythonCmd
    ELSE IF LookPathOK("python3") THEN "python3"
         ELSE IF LookPathOK("python") THEN "python"
              ELSE "python"

\* what getPythonCommand prints to os.Stdout
pythonWarning ==
    LET pythonCmd == GetenvCmd("PYTHON_COMMAND") IN
    IF pythonCmd # "" /\ ~LookPathOK(pythonCmd)
    THEN << [tag |-> "Warning: PYTHON_COMMAND environment variable set to '",
             text |-> pythonCmd \o "', but command not found. Trying defaults."] >>
    ELSE <<>>

(***************************************************************************)
(* Argument marshaling.  An Arg is a record [Key, Value]; a path is passed *)
(* as one token, rendered as a string.                                     *)
(***************************************************************************)
RECURSIVE PathTail(_)
PathTail(p) ==
    IF p = <<>> THEN ""
    ELSE IF Len(p) = 1 THEN p[1] ELSE p[1] \o "/" \o PathTail(Tail(p))

\* the string form of a path
PathStr(p) == IF IsAbs(p) THEN "/" \o PathTail(Tail(p)) ELSE PathTail(p)

RECURSIVE appendArgs_keepEmpty(_, _)
\* appendArgs without the test of the value: an empty value becomes a token
appendArgs_keepEmpty(cmdArgs, args) ==
    IF args = <<>> THEN cmdArgs
    ELSE appendArgs_keepEmpty(Append(Append(cmdArgs, Head(args).Key), Head(args).Value),
                              Tail(args))

RECURSIVE appendArgs(_, _)
\* the loop  for _, arg := range args { append Key; if Value != "" append Value }
appendArgs(cmdArgs, args) ==
    IF args = <<>> THEN cmdArgs
    ELSE LET arg == Head(args)
             withKey == Append(cmdArgs, arg.Key)
         IN appendArgs(IF arg.Value # "" THEN Append(withKey, arg.Value) ELSE withKey,
                       Tail(args))

\* cmdArgs of the Direct entry points
directArgs(scriptPath, args) == appendArgs(<<"-u", PathStr(scriptPath)>>, args)

\* the orders in which a range over a Go map may visit its keys
MapOrders(m) ==
    { o \in [1..Cardinality(DOMAIN m) -> DOMAIN m] :
        \A i, j \in DOMAIN o : i # j => o[i] # o[j] }

\* cmdArgs of the WithUV entry points, for one visiting order of the map
uvArgs(scriptPath, m, o) ==
    appendArgs(<<"run", "--", "python", "-u", PathStr(scriptPath)>>,
               [i \in DOMAIN o |-> [Key |-> o[i], Value |-> m[o[i]]]])

(***************************************************************************)
(* The subprocess: a script is the sequence of its writes, each to one of  *)
(* its two output streams, followed by its exit.                           *)
(***************************************************************************)
RECURSIVE Written(_, _)
\* the bytes a script writes to stream fd when it runs to its exit
Written(prog, fd) ==
    IF prog = <<>> THEN <<>>
    ELSE (IF Head(prog).fd = fd THEN Head(prog).data ELSE <<>>)
         \o Written(Tail(prog), fd)

\* *exec.ExitError of a non-zero exit
ExitError(status) == <<"exit status 1">>
\* the error of exec.Command when LookPath failed, returned by Start
LookPathError(name) == <<"exec: " \o name \o ": executable file not found in $PATH">>
\* any other failure of fork/exec
ForkExecError == <<"fork/exec: resource temporarily unavailable">>
PipeError == <<"pipe: too many open files">>

(***************************************************************************)
(* bufio.Scanner with the default split function ScanLines.                *)
(***************************************************************************)
RECURSIVE IndexNL(_, _)
\* the index of the first NL of buf at or after i, 0 when there is none
IndexNL(buf, i) ==
    IF i > Len(buf) THEN 0 ELSE IF buf[i] = NL THEN i ELSE IndexNL(buf, i + 1)

\* dropCR: a token loses one trailing carriage return
dropCR(t) == IF t # <<>> /\ t[Len(t)] = "\r" THEN SubSeq(t, 1, Len(t) - 1) ELSE t

RECURSIVE Tokens(_)
\* the complete lines of buf, without their terminators
Tokens(buf) ==
    LET i == IndexNL(buf, 1) IN
    IF i = 0 THEN <<>>
    ELSE <<dropCR(SubSeq(buf, 1, i - 1))>> \o Tokens(SubSeq(buf, i + 1, Len(buf)))

RECURSIVE Rest(_)
\* what remains of buf after its complete lines
Rest(buf) ==
    LET i == IndexNL(buf, 1) IN
    IF i = 0 THEN buf ELSE Rest(SubSeq(buf, i + 1, Len(buf)))

\* the final token ScanLines delivers when the input ended: the unterminated rest
FinalTokens(buf) == IF buf = <<>> THEN <<>> ELSE <<dropCR(buf)>>

(***************************************************************************)
(* State of one invocation.                                                *)
(***************************************************************************)
VARIABLES
    pc,           \* position of the calling goroutine
    fn,           \* the function that was called
    rName,        \* scriptName, <<>> before the call
    rArgs,        \* args of a Direct call ([]Arg)
    rMap,         \* args of a WithUV call (map[string]string)
    rPath,        \* scriptPath returned by findScript
    rErr,         \* err returned by findScript
    spawned,      \* the commands this call launched or tried to launch
    cmd,          \* the exec.Cmd of the script: [name, args, dir]
    rCmd,         \* pythonCmd, what getPythonCommand returned to the call
    prog,         \* the writes the script performs
    status,       \* the exit status the script ends with
    cpos,         \* the write the subprocess is at
    coff,         \* the bytes of that write already in the pipe
    exited,       \* the subprocess has exited
    pipe,         \* the unread bytes of each pipe
    rdOpen,       \* the parent's read end of each pipe is open
    relay,        \* each relay goroutine: "none", "reading", "eof", "error"
    scanBuf,      \* each Scanner's buffered, unconsumed bytes
    stdoutBuf,    \* the accumulation buffer
    hostOut,      \* what was written to os.Stdout of the host
    hostErr,      \* what was written to os.Stderr of the host
    cmdErr,       \* the error cmd.Wait returned
    ret,          \* the returned ([]byte, error)
    marshaled,    \* the token sequences marshaled so far, with their inputs
    zlog,         \* the package variable zlog: "nil" or "logger"
    once,         \* the package variable once: its function has run
    calls,        \* the concurrent invocations, each with what it owns
    accesses,     \* the reads and writes of package variables so far
    request,      \* the HTTP request handled: [path, query]
    response      \* the HTTP response written: [code, body]

callVars == <<pc, fn, rName, rArgs, rMap, rPath, rErr, spawned, cmd, rCmd>>
procVars == <<prog, status, cpos, coff, exited, pipe, rdOpen>>
relayVars == <<relay, scanBuf, stdoutBuf, hostOut, hostErr>>
concVars == <<zlog, once, calls, accesses>>
httpVars == <<request, response>>
auxVars == <<marshaled, concVars, httpVars>>
vars == <<envVars, callVars, procVars, relayVars, cmdErr, ret, auxVars>>

Fds == {"out", "err"}
\* the callers that run an execution function at the same time
Invocations == {1, 2}
\* an invocation: where it is, the function, the subprocess it created (0: none),
\* what EnsureUVInstalled read of zlog, the bytes not yet written by its
\* subprocess, its stdout pipe, its buffer, and the bytes it returned
NoCall == [pc |-> "idle", fn |-> "", proc |-> 0, sawLog |-> "", todo |-> <<>>,
           exited |-> FALSE, pipe |-> <<>>, buf |-> <<>>, ret |-> <<>>]
NoRequest == [path |-> <<>>, query |-> <<>>]
NoResponse == [code |-> 0, body |-> NilBytes]
NoCmd == [name |-> "", args |-> <<>>, dir |-> <<>>]

CallInit ==
    /\ pc = "idle" /\ fn = ""
    /\ rName = <<>> /\ rArgs = <<>> /\ rMap = <<>>
    /\ rPath = <<>> /\ rErr = NoError
    /\ spawned = <<>> /\ cmd = NoCmd /\ rCmd = ""
    /\ prog = <<>> /\ status = 0 /\ cpos = 1 /\ coff = 0 /\ exited = FALSE
    /\ pipe = [f \in Fds |-> <<>>]
    /\ rdOpen = [f \in Fds |-> FALSE]
    /\ relay = [f \in Fds |-> "none"]
    /\ scanBuf = [f \in Fds |-> <<>>]
    /\ stdoutBuf = <<>>
    /\ hostOut = <<>> /\ hostErr = <<>>
    /\ cmdErr = NoError
    /\ ret = [bytes |-> NilBytes, err |-> NoError]
    /\ marshaled = <<>>
    /\ zlog = "nil" /\ once = FALSE
    /\ calls = [i \in Invocations |-> NoCall] /\ accesses = {}
    /\ request = NoRequest /\ response = NoResponse

(***************************************************************************)
(* The inputs of the model.                                                *)
(***************************************************************************)
ScriptNames == { <<"h", ".", "p", "y">>, <<"g", ".", "p", "y">> }

\* the places a file may be at
FileUniverse ==
    { <<"/", "e", "s.py">>, <<"/", "d1", "h.py">>, <<"/", "d2", "h.py">>,
      <<"/", "w", "h.py">>, <<"/", "x", "h.py">>, <<"/", "s", "t", "h.py">>,
      <<"/", "s", "h.py">>, <<"/", "w", "r", "h.py">>, <<"/", "w", "g.py">> }

\* values of the script-specific variable: unset, a file, a directory, relative
SpecificValues ==
    { <<>>, <<"/", "e", "s.py">>, <<"/", "e">>, <<"r", "h.py">> }

\* values of PYEXEC_SCRIPT_DIRS
DirsValues ==
    { <<>>, << <<"/", "d1">>, <<"/", "d2">> >>, << <<"/", "d2">>, <<"/", "d1">> >>,
      << <<"r">> >> }

\* an environment; "h.py_PATH" is a variable findScript must not look at
MkEnv(spec, dirs, python) ==
    [k \in {"H_PY_PATH", "h.py_PATH", envVarDirs, "PYTHON_COMMAND"} |->
        IF k = "H_PY_PATH" THEN spec
        ELSE IF k = "h.py_PATH" THEN <<"/", "d2", "h.py">>
        ELSE IF k = envVarDirs THEN dirs
        ELSE python]

ArgUniverse ==
    { [Key |-> "--arg1", Value |-> "value1"], [Key |-> "--flag", Value |-> ""],
      [Key |-> "-a", Value |-> "value2"] }
\* the longest argument list drawn from ArgUniverse
MaxArgs == 2
\* the argument list of TestExecutePythonScript
TestArgs ==
    << [Key |-> "--arg1", Value |-> "value1"], [Key |-> "--flag", Value |-> ""],
       [Key |-> "-a", Value |-> "value2"] >>
ArgLists ==
    {TestArgs} \cup UNION { [1..n -> ArgUniverse] : n \in 0..MaxArgs }
ArgMaps ==
    { [k \in {a.Key : a \in S} |-> (CHOOSE a \in S : a.Key = k).Value] :
        S \in {T \in SUBSET ArgUniverse : Cardinality(T) <= MaxArgs} }

\* the ordered lists a caller may have written the map m as
ListsOf(m) ==
    { [i \in DOMAIN o |-> [Key |-> o[i], Value |-> m[o[i]]]] : o \in MapOrders(m) }

W(fd, data) == [fd |-> fd, data |-> data]
\* the scripts: what they write, in order
Programs ==
    { <<>>,
      << W("out", <<"a", NL>>), W("out", <<"b", NL>>) >>,
      << W("out", <<"a", NL>>), W("err", <<"e", NL>>), W("out", <<"b">>) >>,
      << W("err", <<"e", NL>>), W("out", <<"a", NL>>), W("err", <<"f", NL>>) >>,
      << W("out", <<"a", "b", "a", "b", "a", NL>>), W("out", <<"b", NL>>) >>,
      << W("err", <<"e", "f", "e", "f", "e", NL>>), W("out", <<"a", NL>>) >>,
      << W("out", <<"a", "b", "a", "b">>), W("err", <<"e", NL>>) >> }
Statuses == {0, 1}

(***************************************************************************)
(* A direct call of findScript.                                            *)
(***************************************************************************)
CallFindScript(scriptName) ==
    /\ pc = "idle"
    /\ pc' = "returned"
    /\ fn' = "findScript"
    /\ rName' = scriptName
    /\ rPath' = findScript(scriptName).path
    /\ rErr' = findScript(scriptName).err
    /\ UNCHANGED <<envVars, rArgs, rMap, spawned, cmd, rCmd, procVars, relayVars, cmdErr, ret>>
    /\ UNCHANGED auxVars

(***************************************************************************)
(* A direct call of getPythonCommand.                                      *)
(***************************************************************************)
CallGetPythonCommand ==
    /\ pc = "idle"
    /\ pc' = "returned"
    /\ fn' = "getPythonCommand"
    /\ rCmd' = getPythonCommand
    /\ hostOut' = pythonWarning
    /\ UNCHANGED <<envVars, rName, rArgs, rMap, rPath, rErr, spawned, cmd, procVars>>
    /\ UNCHANGED <<relay, scanBuf, stdoutBuf, hostErr, cmdErr, ret, auxVars>>

\* EnsureUVInstalled without the lookup of uv: the installer is launched on
\* every call
EnsureUVInstalled_alwaysInstalls(installOK) ==
    LET failed == <<"failed to install uv: ", "exit status 1">> IN
    IF goos \in {"linux", "darwin"}
    THEN [err |-> IF installOK THEN NoError ELSE failed,
          ran |-> << [name |-> "sh",
                      args |-> <<"-c", "curl -LsSf https://astral.sh/uv/install.sh | sh">>,
                      dir |-> <<>>] >>]
    ELSE IF goos = "windows"
         THEN [err |-> IF installOK THEN NoError ELSE failed,
               ran |-> << [name |-> "powershell",
                           args |-> <<"-Command", "irm https://astral.sh/uv/install.ps1 | iex">>,
                           dir |-> <<>>] >>]
         ELSE [err |-> <<"unsupported operating system: ", goos>>, ran |-> <<>>]

(***************************************************************************)
(* EnsureUVInstalled: [err, ran], ran being the installer it launched.     *)
(***************************************************************************)
EnsureUVInstalled(installOK) ==
    LET failed == <<"failed to install uv: ", "exit status 1">> IN
    IF LookPathOK("uv") THEN [err |-> NoError, ran |-> <<>>]
    ELSE IF goos \in {"linux", "darwin"}
         THEN [err |-> IF installOK THEN NoError ELSE failed,
               ran |-> << [name |-> "sh",
                           args |-> <<"-c", "curl -LsSf https://astral.sh/uv/install.sh | sh">>,
                           dir |-> <<>>] >>]
         ELSE IF goos = "windows"
              THEN [err |-> IF installOK THEN NoError ELSE failed,
                    ran |-> << [name |-> "powershell",
                                args |-> <<"-Command", "irm https://astral.sh/uv/install.ps1 | iex">>,
                                dir |-> <<>>] >>]
              ELSE [err |-> <<"unsupported operating system: ", goos>>, ran |-> <<>>]

\* cmd.Dir left unset: the subprocess inherits the caller's working directory
cmdDir_inherited(scriptPath) == <<>>

\* cmd.Dir: the directory the subprocess is started in
cmdDir(scriptPath) == Dir(scriptPath)

(***************************************************************************)
(* What the four entry points do before they launch the script: ensure the *)
(* tool (WithUV only), find the script, select the interpreter, marshal.   *)
(* in is [uv, scriptName, args, map, order, installOK, uvOnPath].          *)
(***************************************************************************)
Prelude(in) ==
    LET ens == IF in.uv THEN EnsureUVInstalled(in.installOK)
               ELSE [err |-> NoError, ran |-> <<>>]
        cmds == IF ens.ran # <<>> /\ ens.err = NoError /\ in.uvOnPath
                THEN pathCmds \cup {"uv"} ELSE pathCmds
        found == findScript(in.scriptName)
        searched == ens.err = NoError
        \* getPythonCommand is called by the Direct entry points, after findScript
        selects == ~in.uv /\ found.err = NoError
        c == [name |-> IF in.uv THEN "uv" ELSE getPythonCommand,
              args |-> IF in.uv THEN uvArgs(found.path, in.map, in.order)
                       ELSE directArgs(found.path, in.args),
              dir |-> cmdDir(found.path)]
    IN [err |-> IF ens.err # NoError
                THEN <<"failed to ensure uv is installed: ">> \o ens.err
                ELSE IF found.err # NoError
                     THEN <<"failed to find python script: ">> \o found.err
                     ELSE NoError,
        ran |-> ens.ran,
        cmds |-> cmds,
        path |-> IF searched THEN found.path ELSE <<>>,
        ferr |-> IF searched THEN found.err ELSE NoError,
        cmd |-> IF searched /\ found.err = NoError THEN c ELSE NoCmd,
        pythonCmd |-> IF selects THEN getPythonCommand ELSE "",
        warned |-> IF selects THEN pythonWarning ELSE <<>>]

\* the inputs of a call; whether the installer succeeds and leaves the tool on
\* the search path is an input only when the installer is needed
Inputs(uv) ==
    { in \in [uv : {uv}, scriptName : ScriptNames,
              args : IF uv THEN UNION {ListsOf(m) : m \in ArgMaps} ELSE ArgLists,
              map : IF uv THEN ArgMaps ELSE {<<>>},
              order : IF uv THEN UNION {MapOrders(m) : m \in ArgMaps} ELSE {<<>>},
              installOK : IF uv /\ ~LookPathOK("uv") THEN BOOLEAN ELSE {TRUE},
              uvOnPath : IF uv /\ ~LookPathOK("uv") THEN BOOLEAN ELSE {TRUE}] :
        in.uv => in.order \in MapOrders(in.map) /\ in.args \in ListsOf(in.map) }

\* startError without the lookup of the command's name
startError_noLookup(name, cmds, osOK) ==
    IF ~osOK THEN ForkExecError ELSE NoError

\* the error cmd.Start returns, NoError when the subprocess is created
startError(name, cmds, osOK) ==
    IF name \notin cmds THEN LookPathError(name)
    ELSE IF ~osOK THEN ForkExecError ELSE NoError

(***************************************************************************)
(* Buffered mode: ExecutePythonScript and ExecutePythonScriptWithUV.       *)
(* cmd.Output runs the subprocess to its exit and collects both streams.   *)
(***************************************************************************)
\* bufferedError without the stdout section
bufferedError_noStdout(scriptName, dir, err, stderr, stdout) ==
    <<"python script '", Str(scriptName), "' (in dir ", PathStr(dir),
      ") execution failed: ">> \o err
    \o (IF Text(stderr) # "" THEN <<"\nstderr: ", Text(stderr)>> ELSE <<>>)

bufferedError(scriptName, dir, err, stderr, stdout) ==
    <<"python script '", Str(scriptName), "' (in dir ", PathStr(dir),
      ") execution failed: ">> \o err
    \o (IF Text(stderr) # "" THEN <<"\nstderr: ", Text(stderr)>> ELSE <<>>)
    \o (IF Len(stdout) > 0 THEN <<"\nstdout: ", Text(stdout)>> ELSE <<>>)

\* bufferedResult returning the collected bytes alongside the error
bufferedResult_keepsStdout(scriptName, c, cmds, p, st, osOK) ==
    LET serr == startError(c.name, cmds, osOK)
        ran == serr = NoError
        err == IF ~ran THEN serr ELSE IF st # 0 THEN ExitError(st) ELSE NoError
        stdout == IF ran THEN Written(p, "out") ELSE <<>>
        stderr == IF ran /\ st # 0 THEN Written(p, "err") ELSE <<>>
    IN [bytes |-> BufferBytes(stdout),
        err |-> IF err # NoError
                THEN bufferedError(scriptName, c.dir, err, stderr, stdout)
                ELSE NoError]

\* the result of the Buffered run of cmd, given what the script does
bufferedResult(scriptName, c, cmds, p, st, osOK) ==
    LET serr == startError(c.name, cmds, osOK)
        ran == serr = NoError
        err == IF ~ran THEN serr ELSE IF st # 0 THEN ExitError(st) ELSE NoError
        stdout == IF ran THEN Written(p, "out") ELSE <<>>
        \* exitErr.Stderr: collected by Output, present on an *exec.ExitError only
        stderr == IF ran /\ st # 0 THEN Written(p, "err") ELSE <<>>
    IN IF err # NoError
       THEN [bytes |-> NilBytes,
             err |-> bufferedError(scriptName, c.dir, err, stderr, stdout)]
       ELSE [bytes |-> BufferBytes(stdout), err |-> NoError]

ExecBuffered(in, p, st, osOK) ==
    /\ pc = "idle"
    /\ \E pre \in {Prelude(in)} :
       LET ran == pre.err = NoError /\ startError(pre.cmd.name, pre.cmds, osOK) = NoError
       IN /\ pc' = "returned"
          /\ fn' = IF in.uv THEN "ExecutePythonScriptWithUV" ELSE "ExecutePythonScript"
          /\ rName' = in.scriptName /\ rArgs' = in.args /\ rMap' = in.map
          /\ rPath' = pre.path /\ rErr' = pre.ferr
          /\ pathCmds' = pre.cmds
          /\ cmd' = pre.cmd
          /\ rCmd' = pre.pythonCmd
          /\ hostOut' = pre.warned
          /\ spawned' = pre.ran \o (IF ran THEN <<pre.cmd>> ELSE <<>>)
          /\ prog' = IF ran THEN p ELSE <<>>
          /\ status' = IF ran THEN st ELSE 0
          /\ cpos' = IF ran THEN Len(p) + 1 ELSE 1
          /\ exited' = ran
          /\ ret' = IF pre.err # NoError THEN [bytes |-> NilBytes, err |-> pre.err]
                    ELSE bufferedResult(in.scriptName, pre.cmd, pre.cmds, p, st, osOK)
    /\ UNCHANGED <<files, env, getwdOK, execOK, callerOK, goos>>
    /\ UNCHANGED <<coff, pipe, rdOpen, relay, scanBuf, stdoutBuf, hostErr, cmdErr>>
    /\ UNCHANGED <<marshaled, concVars>>

(***************************************************************************)
(* Streaming mode: ExecutePythonScriptRealtime and                         *)
(* ExecutePythonScriptRealtimeWithUV.                                      *)
(***************************************************************************)
LaunchFaults == {"none", "stdoutPipe", "stderrPipe", "start"}

\* launchError with a start error that does not name the directory
launchError_noDir(scriptName, c, cmds, fault) ==
    IF fault = "stdoutPipe" THEN <<"failed to get stdout pipe: ">> \o PipeError
    ELSE IF fault = "stderrPipe" THEN <<"failed to get stderr pipe: ">> \o PipeError
    ELSE LET serr == startError(c.name, cmds, fault # "start") IN
         IF serr # NoError
         THEN <<"failed to start python script '", Str(scriptName), "': ">> \o serr
         ELSE NoError

\* the error of the part of the function from StdoutPipe to Start
launchError(scriptName, c, cmds, fault) ==
    IF fault = "stdoutPipe" THEN <<"failed to get stdout pipe: ">> \o PipeError
    ELSE IF fault = "stderrPipe" THEN <<"failed to get stderr pipe: ">> \o PipeError
    ELSE LET serr == startError(c.name, cmds, fault # "start") IN
         IF serr # NoError
         THEN <<"failed to start python script '", Str(scriptName), "' in dir '",
                PathStr(c.dir), "': ">> \o serr
         ELSE NoError

\* from the call to the two go statements; the function then blocks in cmd.Wait
RealtimeStart(in, p, st, fault) ==
    /\ pc = "idle"
    /\ \E pre \in {Prelude(in)} :
       LET lerr == IF pre.err # NoError THEN pre.err
                   ELSE launchError(in.scriptName, pre.cmd, pre.cmds, fault)
           ran == lerr = NoError
       IN /\ pc' = IF ran THEN "running" ELSE "returned"
          /\ fn' = IF in.uv THEN "ExecutePythonScriptRealtimeWithUV"
                   ELSE "ExecutePythonScriptRealtime"
          /\ rName' = in.scriptName /\ rArgs' = in.args /\ rMap' = in.map
          /\ rPath' = pre.path /\ rErr' = pre.ferr
          /\ pathCmds' = pre.cmds
          /\ cmd' = pre.cmd
          /\ rCmd' = pre.pythonCmd
          /\ hostOut' = pre.warned
          /\ spawned' = pre.ran \o (IF ran THEN <<pre.cmd>> ELSE <<>>)
          /\ prog' = IF ran THEN p ELSE <<>>
          /\ status' = IF ran THEN st ELSE 0
          /\ rdOpen' = [f \in Fds |-> ran]
          /\ relay' = [f \in Fds |-> IF ran THEN "reading" ELSE "none"]
          /\ ret' = [bytes |-> NilBytes, err |-> lerr]
    /\ UNCHANGED <<files, env, getwdOK, execOK, callerOK, goos>>
    /\ UNCHANGED <<cpos, coff, exited, pipe, scanBuf, stdoutBuf, hostErr, cmdErr>>
    /\ UNCHANGED auxVars

Min(a, b) == IF a < b THEN a ELSE b

\* the subprocess writes: as many bytes of its current write as the pipe takes
ChildWrite ==
    /\ pc = "running" /\ ~exited /\ cpos <= Len(prog)
    /\ LET op == prog[cpos]
           free == PipeCap - Len(pipe[op.fd])
           remaining == Len(op.data) - coff
           k == Min(free, remaining)
       IN /\ free > 0
          /\ pipe' = [pipe EXCEPT ![op.fd] = @ \o SubSeq(op.data, coff + 1, coff + k)]
          /\ cpos' = IF k = remaining THEN cpos + 1 ELSE cpos
          /\ coff' = IF k = remaining THEN 0 ELSE coff + k
    /\ UNCHANGED <<envVars, callVars, prog, status, exited, rdOpen, relayVars, cmdErr, ret, auxVars>>

\* the subprocess exits; its ends of the pipes are closed
ChildExit ==
    /\ pc = "running" /\ ~exited /\ cpos > Len(prog)
    /\ exited' = TRUE
    /\ UNCHANGED <<envVars, callVars, prog, status, cpos, coff, pipe, rdOpen, relayVars, cmdErr, ret, auxVars>>

\* the lines a relay prints for the tokens toks
Relayed(fd, toks) ==
    [i \in 1..Len(toks) |->
        [tag |-> IF fd = "out" THEN "[stdout]" ELSE "[stderr]", text |-> Text(toks[i])]]

\* the line a relay prints when scanner.Err() is not nil
ReadErrorLog(fd, e) ==
    [tag |-> IF fd = "out" THEN "error reading stdout from " ELSE "error reading stderr from ",
     text |-> Str(rName) \o ": " \o e]

\* what a relay does with the lines toks and, if e is not "", the read error e
Emit(fd, toks, e) ==
    LET log == IF e = "" THEN <<>> ELSE <<ReadErrorLog(fd, e)>> IN
    /\ hostOut' = IF fd = "out" THEN hostOut \o Relayed(fd, toks) ELSE hostOut
    /\ hostErr' = IF fd = "out" THEN hostErr \o log
                  ELSE hostErr \o Relayed(fd, toks) \o log

\* RelayReadData with the TeeReader on both pipes
RelayReadData_teeBoth(fd) ==
    /\ relay[fd] = "reading" /\ rdOpen[fd] /\ pipe[fd] # <<>>
    /\ LET k == Min(Len(pipe[fd]), MaxTokenSize - Len(scanBuf[fd]))
           chunk == SubSeq(pipe[fd], 1, k)
           buf == scanBuf[fd] \o chunk
           tooLong == Len(Rest(buf)) >= MaxTokenSize
       IN /\ pipe' = [pipe EXCEPT ![fd] = SubSeq(@, k + 1, Len(@))]
          \* io.TeeReader: what is read from stdout is written to stdoutBuf
          /\ stdoutBuf' = stdoutBuf \o chunk
          /\ scanBuf' = [scanBuf EXCEPT ![fd] = Rest(buf)]
          /\ relay' = [relay EXCEPT ![fd] = IF tooLong THEN "error" ELSE "reading"]
          /\ Emit(fd, Tokens(buf), IF tooLong THEN "bufio.Scanner: token too long" ELSE "")
    /\ UNCHANGED <<envVars, callVars, prog, status, cpos, coff, exited, rdOpen, cmdErr, ret, auxVars>>

\* a relay reads bytes from its pipe and prints the lines they complete
RelayReadData(fd) ==
    /\ relay[fd] = "reading" /\ rdOpen[fd] /\ pipe[fd] # <<>>
    /\ LET k == Min(Len(pipe[fd]), MaxTokenSize - Len(scanBuf[fd]))
           chunk == SubSeq(pipe[fd], 1, k)
           buf == scanBuf[fd] \o chunk
           tooLong == Len(Rest(buf)) >= MaxTokenSize
       IN /\ pipe' = [pipe EXCEPT ![fd] = SubSeq(@, k + 1, Len(@))]
          \* io.TeeReader: what is read from stdout is written to stdoutBuf
          /\ stdoutBuf' = IF fd = "out" THEN stdoutBuf \o chunk ELSE stdoutBuf
          /\ scanBuf' = [scanBuf EXCEPT ![fd] = Rest(buf)]
          /\ relay' = [relay EXCEPT ![fd] = IF tooLong THEN "error" ELSE "reading"]
          /\ Emit(fd, Tokens(buf), IF tooLong THEN "bufio.Scanner: token too long" ELSE "")
    /\ UNCHANGED <<envVars, callVars, prog, status, cpos, coff, exited, rdOpen, cmdErr, ret, auxVars>>

\* a relay reads the end of its pipe: the pipe is empty and the subprocess exited
RelayReadEOF(fd) ==
    /\ relay[fd] = "reading" /\ rdOpen[fd] /\ pipe[fd] = <<>> /\ exited
    /\ relay' = [relay EXCEPT ![fd] = "eof"]
    /\ scanBuf' = [scanBuf EXCEPT ![fd] = <<>>]
    /\ Emit(fd, FinalTokens(scanBuf[fd]), "")
    /\ UNCHANGED <<envVars, callVars, procVars, stdoutBuf, cmdErr, ret, auxVars>>

\* a relay reads from a pipe whose read end cmd.Wait has closed
RelayReadClosed(fd) ==
    /\ relay[fd] = "reading" /\ ~rdOpen[fd]
    /\ relay' = [relay EXCEPT ![fd] = "error"]
    /\ scanBuf' = [scanBuf EXCEPT ![fd] = <<>>]
    /\ Emit(fd, FinalTokens(scanBuf[fd]), "read |0: file already closed")
    /\ UNCHANGED <<envVars, callVars, procVars, stdoutBuf, cmdErr, ret, auxVars>>

RelayDone(fd) == relay[fd] \in {"eof", "error"}

\* WaitReturns dropping the exit status
WaitReturns_ignoresStatus ==
    /\ pc = "running" /\ exited
    /\ pc' = "waited"
    /\ rdOpen' = [f \in Fds |-> FALSE]
    /\ cmdErr' = NoError
    /\ UNCHANGED <<envVars, fn, rName, rArgs, rMap, rPath, rErr, spawned, cmd, rCmd>>
    /\ UNCHANGED <<prog, status, cpos, coff, exited, pipe, relayVars, ret, auxVars>>

\* cmd.Wait returns: the subprocess has exited, Wait closes the parent's pipe ends
WaitReturns ==
    /\ pc = "running" /\ exited
    /\ pc' = "waited"
    /\ rdOpen' = [f \in Fds |-> FALSE]
    /\ cmdErr' = IF status # 0 THEN ExitError(status) ELSE NoError
    /\ UNCHANGED <<envVars, fn, rName, rArgs, rMap, rPath, rErr, spawned, cmd, rCmd>>
    /\ UNCHANGED <<prog, status, cpos, coff, exited, pipe, relayVars, ret, auxVars>>

\* JoinReturns without wg.Wait: the function returns once cmd.Wait has
JoinReturns_noJoin ==
    /\ pc = "waited"
    /\ pc' = "returned"
    /\ ret' = [bytes |-> BufferBytes(stdoutBuf),
               err |-> IF cmdErr # NoError
                       THEN <<"python script '", Str(rName), "' (in dir ", PathStr(cmd.dir),
                              ") exited with error: ">> \o cmdErr
                       ELSE NoError]
    /\ UNCHANGED <<envVars, fn, rName, rArgs, rMap, rPath, rErr, spawned, cmd, rCmd>>
    /\ UNCHANGED <<procVars, relayVars, cmdErr, auxVars>>

\* JoinReturns with a join on the stderr relay only
JoinReturns_joinStderrOnly ==
    /\ pc = "waited" /\ RelayDone("err")
    /\ pc' = "returned"
    /\ ret' = [bytes |-> BufferBytes(stdoutBuf),
               err |-> IF cmdErr # NoError
                       THEN <<"python script '", Str(rName), "' (in dir ", PathStr(cmd.dir),
                              ") exited with error: ">> \o cmdErr
                       ELSE NoError]
    /\ UNCHANGED <<envVars, fn, rName, rArgs, rMap, rPath, rErr, spawned, cmd, rCmd>>
    /\ UNCHANGED <<procVars, relayVars, cmdErr, auxVars>>

\* wg.Wait returns and the function returns
JoinReturns ==
    /\ pc = "waited" /\ \A f \in Fds : RelayDone(f)
    /\ pc' = "returned"
    /\ ret' = [bytes |-> BufferBytes(stdoutBuf),
               err |-> IF cmdErr # NoError
                       THEN <<"python script '", Str(rName), "' (in dir ", PathStr(cmd.dir),
                              ") exited with error: ">> \o cmdErr
                       ELSE NoError]
    /\ UNCHANGED <<envVars, fn, rName, rArgs, rMap, rPath, rErr, spawned, cmd, rCmd>>
    /\ UNCHANGED <<procVars, relayVars, cmdErr, auxVars>>

(***************************************************************************)
(* Specifications.                                                         *)
(***************************************************************************)
\* the environments of the resolution specification
InitResolve ==
    /\ files \in {fs \in SUBSET FileUniverse : Cardinality(fs) <= MaxFiles}
    /\ \E spec \in SpecificValues, dirs \in DirsValues : env = MkEnv(spec, dirs, "")
    /\ getwdOK \in BOOLEAN
    /\ execOK \in BOOLEAN
    /\ callerOK \in BOOLEAN
    /\ pathCmds = {"python3", "python"}
    /\ goos = "linux"
    /\ CallInit

NextResolve == \E n \in ScriptNames : CallFindScript(n)

SpecResolve == InitResolve /\ [][NextResolve]_vars

\* the environments of the selection specification: every executable search
\* path over the names below, and every value of the override
SelectCmds == {"py39", "python3", "python", "uv"}
PythonValues == {"", "py39", "python3", "python"}
InitSelect ==
    /\ files = {}
    /\ \E python \in PythonValues : env = MkEnv(<<>>, <<>>, python)
    /\ getwdOK = TRUE /\ execOK = TRUE /\ callerOK = TRUE
    /\ pathCmds \in SUBSET SelectCmds
    /\ goos = "linux"
    /\ CallInit

NextSelect == CallGetPythonCommand

SpecSelect == InitSelect /\ [][NextSelect]_vars

DefaultCmds == {"python3", "python", "uv"}

\* the marshaling of one invocation, Direct or WithUV, for a script found at
\* scriptPath: the token sequence is logged with the request it was made
\* from; two invocations are logged, to compare them
Marshal(in, scriptPath) ==
    /\ Len(marshaled) < 2
    /\ marshaled' = Append(marshaled,
           [uv |-> in.uv, scriptPath |-> scriptPath, args |-> in.args,
            tokens |-> IF in.uv THEN uvArgs(scriptPath, in.map, in.order)
                       ELSE directArgs(scriptPath, in.args)])
    /\ UNCHANGED <<envVars, callVars, procVars, relayVars, cmdErr, ret, concVars, httpVars>>

ScriptPaths == { <<"/", "w", "h.py">>, <<"/", "d2", "h.py">> }

InitMarshal ==
    /\ files = ScriptPaths
    /\ env = MkEnv(<<>>, <<>>, "")
    /\ getwdOK = TRUE /\ execOK = TRUE /\ callerOK = TRUE
    /\ pathCmds = DefaultCmds
    /\ goos = "linux"
    /\ CallInit

NextMarshal ==
    \E uv \in BOOLEAN : \E in \in Inputs(uv), scriptPath \in ScriptPaths :
        Marshal(in, scriptPath)

SpecMarshal == InitMarshal /\ [][NextMarshal]_vars

(***************************************************************************)
(* Concurrent invocations.  What one invocation does is reduced to its     *)
(* reads and writes of the package variables and of the objects it makes.  *)
(***************************************************************************)
EntryPoints ==
    {"ExecutePythonScript", "ExecutePythonScriptRealtime",
     "ExecutePythonScriptWithUV", "ExecutePythonScriptRealtimeWithUV"}
\* what the subprocess of invocation i writes to its standard output
OutputOf(i) == IF i = 1 THEN <<"a", NL>> ELSE <<"b", NL>>
\* an access of invocation i to the package variable zlog
ZlogAccess(i, kind, sync) ==
    [name |-> "zlog", owner |-> 0, by |-> i, kind |-> kind, sync |-> sync]
\* an access of invocation i to an object made by invocation o
OwnAccess(name, o, i, kind) ==
    [name |-> name, owner |-> o, by |-> i, kind |-> kind, sync |-> TRUE]
ConcUnchanged ==
    UNCHANGED <<envVars, callVars, procVars, relayVars, cmdErr, ret, marshaled, httpVars>>

\* invocation i enters the entry point f
ConcCall(i, f) ==
    /\ calls[i].pc = "idle"
    /\ calls' = [calls EXCEPT ![i].fn = f,
                              ![i].pc = IF f \in {"ExecutePythonScriptWithUV",
                                                  "ExecutePythonScriptRealtimeWithUV"}
                                        THEN "ensure" ELSE "log"]
    /\ UNCHANGED <<zlog, once, accesses>>
    /\ ConcUnchanged

\* EnsureUVInstalled, uv being installed: `if zlog != nil` reads the package
\* variable without once.Do; when another goroutine has written it the read
\* is a data race and may see the old or the new value
ConcEnsureUVInstalled(i) ==
    /\ calls[i].pc = "ensure"
    /\ \E v \in {"nil", zlog} :
          calls' = [calls EXCEPT ![i].sawLog = v, ![i].pc = "log"]
    /\ accesses' = accesses \cup {ZlogAccess(i, "read", FALSE)}
    /\ UNCHANGED <<zlog, once>>
    /\ ConcUnchanged

\* GetZlog().Info()...: once.Do sets zlog the first time; then the subprocess
\* is created with its own pipes and buffer
ConcGetZlog(i) ==
    /\ calls[i].pc = "log"
    /\ zlog' = "logger"
    /\ once' = TRUE
    /\ accesses' = accesses
          \cup (IF once THEN {} ELSE {ZlogAccess(i, "write", TRUE)})
          \cup {ZlogAccess(i, "read", TRUE)}
          \cup {OwnAccess("cmd", i, i, "write"), OwnAccess("stdoutBuf", i, i, "write")}
    /\ calls' = [calls EXCEPT ![i].pc = "run", ![i].proc = i, ![i].todo = OutputOf(i)]
    /\ ConcUnchanged

\* the subprocess of invocation i writes a byte into its pipe
ConcChildWrite(i) ==
    /\ calls[i].pc = "run" /\ calls[i].todo # <<>>
    /\ Len(calls[i].pipe) < PipeCap
    /\ calls' = [calls EXCEPT ![i].pipe = Append(@, Head(calls[i].todo)),
                              ![i].todo = Tail(@)]
    /\ accesses' = accesses \cup {OwnAccess("pipe", calls[i].proc, i, "write")}
    /\ UNCHANGED <<zlog, once>>
    /\ ConcUnchanged

\* the subprocess of invocation i exits
ConcChildExit(i) ==
    /\ calls[i].pc = "run" /\ calls[i].todo = <<>> /\ ~calls[i].exited
    /\ calls' = [calls EXCEPT ![i].exited = TRUE]
    /\ UNCHANGED <<zlog, once, accesses>>
    /\ ConcUnchanged

\* invocation i reads its pipe into its buffer
ConcRead(i) ==
    /\ calls[i].pc = "run" /\ calls[i].pipe # <<>>
    /\ calls' = [calls EXCEPT ![i].buf = @ \o calls[i].pipe, ![i].pipe = <<>>]
    /\ accesses' = accesses \cup {OwnAccess("pipe", calls[i].proc, i, "read"),
                                   OwnAccess("stdoutBuf", i, i, "write")}
    /\ UNCHANGED <<zlog, once>>
    /\ ConcUnchanged

\* invocation i returns its buffer once its subprocess has exited
ConcReturn(i) ==
    /\ calls[i].pc = "run" /\ calls[i].exited
    /\ calls' = [calls EXCEPT ![i].pc = "done", ![i].ret = calls[i].buf]
    /\ accesses' = accesses \cup {OwnAccess("stdoutBuf", i, i, "read")}
    /\ UNCHANGED <<zlog, once>>
    /\ ConcUnchanged

InitConc ==
    /\ files = ScriptPaths
    /\ env = MkEnv(<<>>, <<>>, "")
    /\ getwdOK = TRUE /\ execOK = TRUE /\ callerOK = TRUE
    /\ pathCmds = DefaultCmds
    /\ goos = "linux"
    /\ CallInit

NextConc ==
    \E i \in Invocations :
        \/ \E f \in EntryPoints : ConcCall(i, f)
        \/ ConcEnsureUVInstalled(i)
        \/ ConcGetZlog(i)
        \/ ConcChildWrite(i)
        \/ ConcChildExit(i)
        \/ ConcRead(i)
        \/ ConcReturn(i)

SpecConc == InitConc /\ [][NextConc]_vars

(***************************************************************************)
(* The HTTP handler.  A URL path and a raw query are sequences of          *)
(* characters; a run of ordinary characters may stand as one element.      *)
(***************************************************************************)
\* strings.Index for a one-character separator: 0 when c is not in s
Index(s, c) ==
    IF \E i \in DOMAIN s : s[i] = c
    THEN CHOOSE i \in DOMAIN s : s[i] = c /\ \A j \in 1..(i - 1) : s[j] # c
    ELSE 0

RECURSIVE Split(_, _)
\* strings.Split(s, c)
Split(s, c) ==
    LET i == Index(s, c) IN
    IF i = 0 THEN <<s>>
    ELSE <<SubSeq(s, 1, i - 1)>> \o Split(SubSeq(s, i + 1, Len(s)), c)

\* SplitN2 cutting at every separator, as strings.Split does
SplitN2_everySeparator(s, c) == Split(s, c)

\* strings.SplitN(s, c, 2)
SplitN2(s, c) ==
    LET i == Index(s, c) IN
    IF i = 0 THEN <<s>> ELSE <<SubSeq(s, 1, i - 1), SubSeq(s, i + 1, Len(s))>>

\* strings.TrimSuffix(s, c)
TrimSuffix(s, c) ==
    IF s # <<>> /\ s[Len(s)] = c THEN SubSeq(s, 1, Len(s) - 1) ELSE s

HexDigits ==
    {"0", "1", "2", "3", "4", "5", "6", "7", "8", "9",
     "a", "b", "c", "d", "e", "f", "A", "B", "C", "D", "E", "F"}
\* the character with the hexadecimal code h1 h2
Unhex(h1, h2) ==
    IF <<h1, h2>> = <<"2", "0">> THEN " "
    ELSE IF <<h1, h2>> = <<"2", "2">> THEN "\""
    ELSE IF <<h1, h2>> = <<"2", "6">> THEN "&"
    ELSE IF <<h1, h2>> = <<"3", "D">> THEN "="
    ELSE "%" \o h1 \o h2

\* QueryUnescape that accepts every string and leaves it as it is
QueryUnescape_noCheck(s) == [ok |-> TRUE, val |-> s]

RECURSIVE QueryUnescape(_)
\* url.QueryUnescape: [ok, val]
QueryUnescape(s) ==
    IF s = <<>> THEN [ok |-> TRUE, val |-> <<>>]
    ELSE IF s[1] = "%"
         THEN IF Len(s) >= 3 /\ s[2] \in HexDigits /\ s[3] \in HexDigits
              THEN LET r == QueryUnescape(SubSeq(s, 4, Len(s))) IN
                   [ok |-> r.ok, val |-> <<Unhex(s[2], s[3])>> \o r.val]
              ELSE [ok |-> FALSE, val |-> <<>>]
         ELSE LET r == QueryUnescape(Tail(s)) IN
              [ok |-> r.ok, val |-> <<IF s[1] = "+" THEN " " ELSE s[1]>> \o r.val]

RECURSIVE queryArgs(_)
\* the loop over rawParams: [err, args], err being the bad-request message
queryArgs(rawParams) ==
    IF rawParams = <<>> THEN [err |-> NoError, args |-> <<>>]
    ELSE LET param == Head(rawParams)
             parts == SplitN2(param, "=")
             key == QueryUnescape(parts[1])
             value == IF Len(parts) = 2 THEN QueryUnescape(parts[2])
                      ELSE [ok |-> TRUE, val |-> <<>>]
             rest == queryArgs(Tail(rawParams))
         IN IF param = <<>> THEN rest
            ELSE IF ~key.ok
            THEN [err |-> <<"Malformed query parameter key: ", Str(parts[1])>>,
                  args |-> <<>>]
            ELSE IF ~value.ok
                 THEN [err |-> <<"Malformed query parameter value for key ",
                                 Str(key.val), ": ", Str(parts[2])>>,
                       args |-> <<>>]
                 ELSE [err |-> rest.err,
                       args |-> IF rest.err # NoError THEN <<>>
                                ELSE <<[Key |-> Str(key.val), Value |-> Str(value.val)]>>
                                     \o rest.args]

\* what handleExecutionRequest makes of the request before it calls f:
\* [err, scriptName, args]
parseRequest(req) ==
    LET pathParts == Split(TrimSuffix(req.path, "/"), "/")
        parsed == IF req.query # <<>> THEN queryArgs(Split(req.query, "&"))
                  ELSE [err |-> NoError, args |-> <<>>]
    IN IF Len(pathParts) < 2 \/ pathParts[Len(pathParts)] = <<>>
       THEN [err |-> <<"Script name missing in URL path. Expected format: /",
                       Str(req.path), "/<script_name.py>">>,
             scriptName |-> <<>>, args |-> <<>>]
       ELSE [err |-> parsed.err, scriptName |-> pathParts[Len(pathParts)],
             args |-> parsed.args]

\* handleExecutionRequest with f = ExecutePythonScript
handleExecutionRequest(req, p, st, osOK) ==
    /\ pc = "idle"
    /\ request' = req
    /\ \E parsed \in {parseRequest(req)} :
          IF parsed.err # NoError
          THEN /\ response' = [code |-> 400, body |-> BufferBytes(parsed.err)]
               /\ pc' = "returned"
               /\ UNCHANGED <<fn, rName, rArgs, rMap, rPath, rErr, spawned, cmd, rCmd>>
               /\ UNCHANGED <<envVars, procVars, relayVars, cmdErr, ret>>
               /\ UNCHANGED <<marshaled, concVars>>
          ELSE /\ ExecBuffered([uv |-> FALSE, scriptName |-> parsed.scriptName,
                                args |-> parsed.args, map |-> <<>>, order |-> <<>>,
                                installOK |-> TRUE, uvOnPath |-> TRUE], p, st, osOK)
               /\ response' =
                     IF ret'.err # NoError
                     THEN [code |-> 500,
                           body |-> BufferBytes(<<"Failed to execute script: ">> \o ret'.err)]
                     ELSE [code |-> 200, body |-> ret'.bytes]

\* the longest raw query drawn from QueryChars
MaxQuery == 4
QueryChars == {"k", "=", "&", "%", "+", "2"}
\* the query of the README's example
ExampleQuery == <<"--name", "=", "Universe", "&", "--verbose">>
\* a query with an empty parameter, a flag, and escapes in key and value
EscapedQuery == <<"k", "&", "&", "%", "2", "2", "=", "+">>
Queries == {ExampleQuery, EscapedQuery} \cup UNION { [1..n -> QueryChars] : n \in 0..MaxQuery }
Paths ==
    { <<"/", "execute", "/", "h", ".", "p", "y">>,
      <<"/", "execute", "/", "h", ".", "p", "y", "/">>,
      <<"/", "execute", "/", "x", "/", "g", ".", "p", "y">>,
      <<"/", "h", ".", "p", "y">>,
      <<"/", "execute", "/", "h", ".", "p", "y", "/", "/">>,
      <<"/", "execute", "/">>, <<"/">>, <<>>, <<"h", ".", "p", "y">> }
HTTPPrograms == { <<>>, << W("out", <<"a", NL>>), W("err", <<"e", NL>>), W("out", <<"b">>) >> }

InitHTTP ==
    /\ files \in { {}, {<<"/", "w", "h.py">>, <<"/", "w", "g.py">>} }
    /\ env = MkEnv(<<>>, <<>>, "")
    /\ getwdOK = TRUE /\ execOK = TRUE /\ callerOK = TRUE
    /\ pathCmds = DefaultCmds
    /\ goos = "linux"
    /\ CallInit

NextHTTP ==
    /\ pc = "idle"
    /\ \E path \in Paths, query \in Queries, p \in HTTPPrograms, st \in Statuses :
          handleExecutionRequest([path |-> path, query |-> query], p, st, TRUE)

SpecHTTP == InitHTTP /\ [][NextHTTP]_vars

\* the environments of the execution specification: each way of finding the
\* script under the usual executable search path, and each executable search
\* path and platform for a script in the working directory
Env(fs, spec, dirs, wd, cmds, python, os) ==
    [files |-> fs, spec |-> spec, dirs |-> dirs, getwd |-> wd,
     cmds |-> cmds, python |-> python, goos |-> os]
ExecEnvs ==
    { Env({}, <<>>, <<>>, TRUE, DefaultCmds, "", "linux"),
      Env({<<"/", "w", "h.py">>}, <<>>, <<>>, TRUE, DefaultCmds, "", "linux"),
      Env({<<"/", "e", "s.py">>, <<"/", "w", "h.py">>}, <<"/", "e", "s.py">>, <<>>,
          TRUE, DefaultCmds, "", "linux"),
      Env({<<"/", "d2", "h.py">>}, <<>>, << <<"/", "d1">>, <<"/", "d2">> >>,
          TRUE, DefaultCmds, "", "linux"),
      Env({<<"/", "x", "h.py">>}, <<"/", "e">>, <<>>, TRUE, DefaultCmds, "", "linux"),
      Env({<<"/", "s", "h.py">>}, <<>>, <<>>, TRUE, DefaultCmds, "", "linux"),
      Env({<<"/", "w", "r", "h.py">>}, <<"r", "h.py">>, <<>>, FALSE, DefaultCmds, "", "linux") }
    \cup { Env({<<"/", "w", "h.py">>}, <<>>, <<>>, TRUE, {"python", "py39"}, "py39", os) :
             os \in {"linux", "windows", "plan9"} }
    \cup { Env({<<"/", "w", "h.py">>}, <<>>, <<>>, TRUE, {}, "py39", "linux"),
           Env({<<"/", "w", "h.py">>}, <<>>, <<>>, TRUE, DefaultCmds, "py39", "linux"),
           Env({<<"/", "w", "h.py">>}, <<>>, <<>>, TRUE, {"uv"}, "", "linux") }

Init ==
    /\ \E e \in ExecEnvs :
          /\ files = e.files
          /\ env = MkEnv(e.spec, e.dirs, e.python)
          /\ getwdOK = e.getwd
          /\ pathCmds = e.cmds
          /\ goos = e.goos
    /\ execOK = TRUE
    /\ callerOK = TRUE
    /\ CallInit

\* a call of ExecutePythonScript or ExecutePythonScriptWithUV
CallBuffered ==
    /\ pc = "idle"
    /\ \E uv \in BOOLEAN : \E in \in Inputs(uv), p \in Programs, st \in Statuses,
          osOK \in BOOLEAN : ExecBuffered(in, p, st, osOK)
    /\ UNCHANGED httpVars

\* a call of ExecutePythonScriptRealtime or ExecutePythonScriptRealtimeWithUV
CallRealtime ==
    /\ pc = "idle"
    /\ \E uv \in BOOLEAN : \E in \in Inputs(uv), p \in Programs, st \in Statuses,
          fault \in LaunchFaults : RealtimeStart(in, p, st, fault)

Next ==
    \/ \E n \in ScriptNames : CallFindScript(n)
    \/ CallBuffered
    \/ CallRealtime
    \/ ChildWrite
    \/ ChildExit
    \/ \E fd \in Fds : RelayReadData(fd)
    \/ \E fd \in Fds : RelayReadEOF(fd)
    \/ \E fd \in Fds : RelayReadClosed(fd)
    \/ WaitReturns
    \/ JoinReturns

Spec == Init /\ [][Next]_vars

(***************************************************************************)
(* Properties.                                                             *)
(***************************************************************************)
Returned == pc = "returned"
Direct == fn \in {"ExecutePythonScript", "ExecutePythonScriptRealtime"}
Buffered == fn \in {"ExecutePythonScript", "ExecutePythonScriptWithUV"}
Streaming == fn \in {"ExecutePythonScriptRealtime", "ExecutePythonScriptRealtimeWithUV"}
\* findScript succeeded in this call
Resolved == rPath # <<>> /\ rErr = NoError
\* the script's subprocess was created
Launched == cmd # NoCmd /\ \E i \in 1..Len(spawned) : spawned[i] = cmd
\* msg has the part x
HasPart(msg, x) == \E i \in 1..Len(msg) : msg[i] = x
\* msg has the part label followed by the part text
HasSection(msg, label, text) ==
    \E i \in 1..(Len(msg) - 1) : msg[i] = label /\ msg[i + 1] = text
\* the lines of a byte string, the last one possibly unterminated
SplitLines(d) == Tokens(d) \o FinalTokens(Rest(d))

\* the number of Args among the first n of a list that have a value
NumValues(args, n) == Cardinality({i \in 1..n : args[i].Value # ""})
\* where the key of the i-th Arg stands in the token sequence
KeyPos(args, i) == 2 + i + NumValues(args, i - 1)

\* C1: in Direct mode the tokens are "-u", the script path, then every key in
\* the caller's order, each followed by its value exactly when the value is not
\* empty; there are 2 + N + (number of non-empty values) tokens, and the list
\* of TestExecutePythonScript gives the tail --arg1 value1 --flag -a value2.
C1_ArgumentOrder ==
    (Direct /\ Resolved) =>
        /\ Len(cmd.args) = 2 + Len(rArgs) + NumValues(rArgs, Len(rArgs))
        /\ cmd.args[1] = "-u" /\ cmd.args[2] = PathStr(rPath)
        /\ \A i \in 1..Len(rArgs) :
              /\ cmd.args[KeyPos(rArgs, i)] = rArgs[i].Key
              /\ rArgs[i].Value # "" => cmd.args[KeyPos(rArgs, i) + 1] = rArgs[i].Value
        /\ rArgs = TestArgs =>
              SubSeq(cmd.args, 3, Len(cmd.args))
                 = <<"--arg1", "value1", "--flag", "-a", "value2">>

C1_Witness ==
    /\ fn = "ExecutePythonScriptRealtime" /\ pc = "running" /\ Launched
    /\ rArgs = TestArgs
    /\ cmd.args = <<"-u", "/w/h.py", "--arg1", "value1", "--flag", "-a", "value2">>

\* C2: when a script run by ExecutePythonScriptRealtime exits with status zero
\* the returned bytes, split into lines, are the lines it wrote to standard
\* output, in order, under every interleaving.
C2_StreamingComplete ==
    (Returned /\ fn = "ExecutePythonScriptRealtime" /\ Launched /\ status = 0) =>
        SplitLines(ret.bytes.data) = SplitLines(Written(prog, "out"))

\* C3: a Streaming call that started its subprocess returns only after the
\* subprocess exited, cmd.Wait closed both pipes and both relays terminated.
C3_ReturnAfterJoin ==
    (Returned /\ Streaming /\ Launched) =>
        /\ exited
        /\ \A f \in Fds : relay[f] \in {"eof", "error"} /\ ~rdOpen[f]

C3_Witness ==
    /\ Returned /\ fn = "ExecutePythonScriptRealtimeWithUV" /\ Launched
    /\ \E i \in 1..Len(hostErr) :
          hostErr[i] = ReadErrorLog("out", "read |0: file already closed")

\* C4: the result of a Streaming call is assembled only after both relays
\* reached Drained, and a relay reaches Drained only by reading EOF.
C4_DrainedByEOF ==
    (Returned /\ Streaming /\ Launched) => \A f \in Fds : relay[f] = "eof"

\* C5: when a script run by ExecutePythonScriptRealtime exits non-zero the call
\* returns an error and all the bytes the script wrote to standard output.
C5_StreamingPartialOutput ==
    (Returned /\ fn = "ExecutePythonScriptRealtime" /\ Launched /\ status # 0) =>
        /\ ret.err # NoError
        /\ ret.bytes.data = Written(prog, "out")
        /\ Written(prog, "out") # <<>> => ~ret.bytes.isNil

\* the case of C6: a script run by ExecutePythonScript printed and failed
BufferedFailedWithOutput ==
    /\ Returned /\ fn = "ExecutePythonScript" /\ Launched /\ status # 0
    /\ Written(prog, "out") # <<>>

\* C6 as claimed: the bytes ExecutePythonScript returns alongside the error of
\* a failing script contain what the script printed.
C6_BufferedPartialBytes ==
    BufferedFailedWithOutput => ret.bytes.data = Written(prog, "out")

\* C6 amended: the bytes returned alongside the error are nil and what the
\* script printed is the stdout section of the error message.
C6_BufferedPartialInError ==
    BufferedFailedWithOutput =>
        /\ ret.err # NoError
        /\ ret.bytes = NilBytes
        /\ HasSection(ret.err, "\nstdout: ", Text(Written(prog, "out")))

C6_Witness ==
    /\ BufferedFailedWithOutput
    /\ ret.bytes.isNil
    /\ HasSection(ret.err, "\nstdout: ", "a\nb\n")

\* the case of C7: ExecutePythonScript found the script and returned an error
BufferedFailed ==
    Returned /\ fn = "ExecutePythonScript" /\ Resolved /\ ret.err # NoError

\* C7: the error of a failed Buffered run carries the script name, the working
\* directory and the underlying error, the captured standard-error text exactly
\* when it is not empty and the captured standard-output text exactly when it
\* is not empty.
C7_FailureBundle ==
    BufferedFailed =>
        LET capturedOut == IF Launched THEN Written(prog, "out") ELSE <<>>
            capturedErr == IF Launched THEN Written(prog, "err") ELSE <<>>
        IN /\ HasSection(ret.err, "python script '", Str(rName))
           /\ HasSection(ret.err, "' (in dir ", PathStr(Dir(rPath)))
           /\ IF Launched THEN status # 0 /\ HasPart(ret.err, "exit status 1")
              ELSE \/ HasPart(ret.err, "fork/exec: resource temporarily unavailable")
                   \/ HasPart(ret.err, "exec: " \o cmd.name
                                        \o ": executable file not found in $PATH")
           /\ HasPart(ret.err, "\nstderr: ") <=> capturedErr # <<>>
           /\ capturedErr # <<>> => HasSection(ret.err, "\nstderr: ", Text(capturedErr))
           /\ HasPart(ret.err, "\nstdout: ") <=> capturedOut # <<>>
           /\ capturedOut # <<>> => HasSection(ret.err, "\nstdout: ", Text(capturedOut))

C7_Witness ==
    /\ BufferedFailed /\ Launched
    /\ HasSection(ret.err, "\nstderr: ", "e\n")
    /\ HasSection(ret.err, "\nstdout: ", "a\nb")
    /\ HasSection(ret.err, "' (in dir ", "/e")

\* C8: in both modes the returned error is nil exactly when the script was
\* found, its subprocess was created and it exited with status zero, and the
\* returned bytes are then the captured standard output.
C8_ExitStatus ==
    (Returned /\ (Buffered \/ Streaming)) =>
        /\ ret.err = NoError <=> (Resolved /\ Launched /\ status = 0)
        /\ ret.err = NoError =>
              ret.bytes.data = IF Buffered THEN Written(prog, "out") ELSE stdoutBuf

C8_Witness ==
    /\ Returned /\ Streaming /\ Launched /\ status = 0
    /\ ret.err = NoError /\ ret.bytes.data = <<"a", NL, "b", NL>>

\* the variable the specification names for a script: the name in upper case,
\* "." replaced by "_", followed by "_PATH"
ExpectedVar(n) ==
    IF n = <<"h", ".", "p", "y">> THEN "H_PY_PATH" ELSE "G_PY_PATH"

\* the candidates of the five strategies for the script n, in precedence order
Candidates(n) ==
    LET name == Str(n)
        v == IF ExpectedVar(n) \in DOMAIN env THEN env[ExpectedVar(n)] ELSE <<>>
        d == env["PYEXEC_SCRIPT_DIRS"]
    IN (IF v # <<>> THEN <<v>> ELSE <<>>)
       \o [i \in 1..Len(d) |-> d[i] \o <<name>>]
       \o << <<name>> >>
       \o (IF execOK THEN << <<"/", "x", name>> >> ELSE <<>>)
       \o (IF callerOK THEN << <<"/", "s", "t", name>>, <<"/", "s", name>> >> ELSE <<>>)

\* the candidate p names a regular file
IsFile(p) == (IF IsAbs(p) THEN Clean(p) ELSE Clean(cwd \o p)) \in files
\* the candidates of n that exist
Existing(n) == {i \in 1..Len(Candidates(n)) : IsFile(Candidates(n)[i])}

\* C9: findScript returns the file of the first candidate, in the order specific
\* variable, search directories in list order, working directory, executable
\* directory, caller directory, its parent, that is a regular file.
C9_Precedence ==
    (Returned /\ fn = "findScript" /\ Existing(rName) # {}) =>
        LET k == CHOOSE i \in Existing(rName) : \A j \in Existing(rName) : i <= j
            p == Candidates(rName)[k]
        IN /\ rErr = NoError
           /\ rPath # <<>>
           /\ (IF IsAbs(rPath) THEN Clean(rPath) ELSE Clean(cwd \o rPath))
                 = (IF IsAbs(p) THEN Clean(p) ELSE Clean(cwd \o p))

C9_Witness ==
    /\ Returned /\ fn = "findScript" /\ rName = <<"h", ".", "p", "y">>
    /\ env["H_PY_PATH"] = <<"/", "e", "s.py">>
    /\ files = {<<"/", "e", "s.py">>, <<"/", "w", "h.py">>}
    /\ rPath = <<"/", "e", "s.py">>

\* C10: findScript fails exactly when no strategy has a regular file; its error
\* then names "not found", the script and the two variables, and an execution
\* function returns it, wrapped, with nil bytes.
C10_NotFound ==
    (Returned /\ (rPath # <<>> \/ rErr # NoError)) =>
        /\ rErr # NoError <=> Existing(rName) = {}
        /\ rErr # NoError =>
              /\ HasSection(rErr, "script '", Str(rName))
              /\ HasSection(rErr, "' not found in any of the expected locations (checked env ",
                            ExpectedVar(rName))
              /\ HasSection(rErr, ", env ", "PYEXEC_SCRIPT_DIRS")
              /\ fn # "findScript" =>
                    /\ ret.bytes = NilBytes
                    /\ ret.err = <<"failed to find python script: ">> \o rErr

C10_Witness ==
    /\ Returned /\ fn = "ExecutePythonScriptRealtime" /\ rName = <<"g", ".", "p", "y">>
    /\ ret.bytes.isNil
    /\ HasPart(ret.err, "G_PY_PATH") /\ HasPart(ret.err, "g.py")
    /\ spawned = <<>>


\* the override of the interpreter, "" when unset
Override == GetenvCmd("PYTHON_COMMAND")
\* the override is set and is not on the executable search path
OverrideUnresolvable == Override # "" /\ ~LookPathOK(Override)
\* getPythonCommand printed its warning about the override
Warned ==
    \E i \in 1..Len(hostOut) :
        /\ hostOut[i].tag = "Warning: PYTHON_COMMAND environment variable set to '"
        /\ hostOut[i].text = Override \o "', but command not found. Trying defaults."
\* the order of selection: a resolvable override, else python3 if resolvable,
\* else python
SelectedInOrder ==
    /\ (Override # "" /\ LookPathOK(Override)) => rCmd = Override
    /\ (~(Override # "" /\ LookPathOK(Override)) /\ LookPathOK("python3")) => rCmd = "python3"
    /\ (~(Override # "" /\ LookPathOK(Override)) /\ ~LookPathOK("python3")) => rCmd = "python"

\* C11 as stated: getPythonCommand returns the override if it is set and
\* resolvable, otherwise python3 if resolvable, otherwise python; an override
\* that is set but not resolvable is never returned, and a warning is printed.
C11_OverrideNeverReturned ==
    (Returned /\ fn = "getPythonCommand") =>
        /\ SelectedInOrder
        /\ OverrideUnresolvable => (Warned /\ rCmd # Override)

\* C11 amended: getPythonCommand returns the override if it is set and
\* resolvable, otherwise python3 if resolvable, otherwise python; for an
\* override that is set but not resolvable a warning is printed (and only
\* then), and the result is the one of the defaults, which is the override's
\* own name only when the override is "python" and python3 is not resolvable.
C11_SelectionOrder ==
    (Returned /\ fn = "getPythonCommand") =>
        /\ SelectedInOrder
        /\ OverrideUnresolvable <=> Warned
        /\ ~OverrideUnresolvable => hostOut = <<>>
        /\ (OverrideUnresolvable /\ rCmd = Override) =>
               (Override = "python" /\ ~LookPathOK("python3"))

\* an unresolvable override fell through to python3, with the warning
C11_Witness ==
    /\ Returned /\ fn = "getPythonCommand"
    /\ Override = "py39" /\ pathCmds = {"python3", "python"}
    /\ rCmd = "python3" /\ Warned


\* neither the override, python3 nor python is on the executable search path
NoneResolvable ==
    /\ ~(Override # "" /\ LookPathOK(Override))
    /\ ~LookPathOK("python3") /\ ~LookPathOK("python")
\* err is the error of a launch that did not create the subprocess
IsLaunchError(err) ==
    \/ HasPart(err, LookPathError("python")[1])
    \/ HasPart(err, "failed to get stdout pipe: ")
    \/ HasPart(err, "failed to get stderr pipe: ")

\* C12: when neither the override, python3 nor python is resolvable, a Direct
\* call that found its script selects "python" all the same and returns at
\* once with a non-nil error of the launch, not of the resolution, no bytes,
\* and no subprocess created, in Buffered and in Streaming mode.
C12_SoftFail ==
    (Direct /\ Resolved /\ NoneResolvable) =>
        /\ Returned
        /\ rCmd = "python" /\ cmd.name = "python"
        /\ ret.err # NoError /\ IsLaunchError(ret.err)
        /\ ~HasPart(ret.err, "failed to find python script: ")
        /\ ret.bytes = NilBytes
        /\ ~Launched /\ spawned = <<>>
        /\ Buffered => HasPart(ret.err, LookPathError("python")[1])

\* a Streaming call that failed in cmd.Start for want of an interpreter
C12_Witness ==
    /\ Returned /\ fn = "ExecutePythonScriptRealtime" /\ Resolved /\ NoneResolvable
    /\ Override = "py39"
    /\ HasPart(ret.err, "failed to start python script '")
    /\ HasPart(ret.err, LookPathError("python")[1])


\* the directory the OS starts the script's subprocess in
WorkingDir == Resolve(cmd.dir)
\* d is the directory that contains the file p
Contains(d, p) == Len(p) = Len(d) + 1 /\ SubSeq(p, 1, Len(d)) = d

\* C13: in every mode the script's subprocess is started in the directory
\* that contains the file findScript resolved, wherever that file was found
\* and whatever the caller's working directory is.
C13_WorkingDirectory ==
    Launched =>
        /\ cmd.dir = Dir(rPath)
        /\ Resolve(rPath) \in files
        /\ Contains(WorkingDir, Resolve(rPath))

\* a Delegated Streaming call whose script was found through the search
\* directories, outside the caller's working directory
C13_Witness ==
    /\ Launched /\ fn = "ExecutePythonScriptRealtimeWithUV"
    /\ rPath = <<"/", "d2", "h.py">>
    /\ WorkingDir = <<"/", "d2">> /\ WorkingDir # cwd


Delegated == fn \in {"ExecutePythonScriptWithUV", "ExecutePythonScriptRealtimeWithUV"}

\* C14: a Delegated call that found its script invokes uv with the tokens
\* "run", "--", the interpreter getPythonCommand selects, and then the tokens
\* Direct mode gives for the same request: "-u", the script path, and the
\* keys in the caller's order, each followed by its non-empty value.
C14_DelegatedShape ==
    (Delegated /\ cmd # NoCmd) =>
        /\ cmd.name = "uv"
        /\ cmd.args = <<"run", "--", getPythonCommand>> \o directArgs(rPath, rArgs)


\* C15: two invocations of the same kind (Direct, or Delegated) given the
\* same script path and the same arguments in the same order marshal the
\* identical token sequence.
C15_Deterministic ==
    \A i, j \in DOMAIN marshaled :
        (/\ marshaled[i].uv = marshaled[j].uv
         /\ marshaled[i].scriptPath = marshaled[j].scriptPath
         /\ marshaled[i].args = marshaled[j].args)
        => marshaled[i].tokens = marshaled[j].tokens


\* the elements of a sequence
Range(q) == {q[i] : i \in DOMAIN q}
\* the bytes the script writes to standard error and never to standard output
StderrOnlyBytes == Range(Written(prog, "err")) \ Range(Written(prog, "out"))
\* a is a prefix of b
IsPrefix(a, b) == Len(a) <= Len(b) /\ SubSeq(b, 1, Len(a)) = a

\* C16: what an execution function returns, and what Streaming mode
\* accumulates, are bytes the script wrote to standard output, in the order
\* written; no byte the script wrote only to standard error is among them; in
\* Streaming mode only a script that writes to standard error gets "[stderr]"
\* lines, they go to the host's standard error and never to its standard
\* output, and no "[stdout]" line goes to the host's standard error.
C16_StdoutOnly ==
    /\ IsPrefix(stdoutBuf, Written(prog, "out"))
    /\ Range(stdoutBuf) \cap StderrOnlyBytes = {}
    /\ (Returned /\ (Buffered \/ Streaming)) =>
           /\ IsPrefix(ret.bytes.data, Written(prog, "out"))
           /\ Range(ret.bytes.data) \cap StderrOnlyBytes = {}
    /\ Streaming =>
           /\ \A i \in DOMAIN hostOut : hostOut[i].tag # "[stderr]"
           /\ \A i \in DOMAIN hostErr : hostErr[i].tag # "[stdout]"
           /\ (Written(prog, "err") = <<>>) =>
                  \A i \in DOMAIN hostErr : hostErr[i].tag # "[stderr]"

\* a Streaming call whose script wrote to both streams: the error line was
\* relayed, the returned bytes are the standard output
C16_Witness ==
    /\ Returned /\ Streaming /\ Launched
    /\ Written(prog, "err") = <<"e", NL>>
    /\ ret.bytes.data = <<"a", NL, "b">>
    /\ \E i \in DOMAIN hostErr : hostErr[i] = [tag |-> "[stderr]", text |-> "e"]


Other(fd) == IF fd = "out" THEN "err" ELSE "out"
\* the relay of fd logged the read error e
LoggedReadError(fd, e) == \E i \in DOMAIN hostErr : hostErr[i] = ReadErrorLog(fd, e)
\* the relay of fd stopped on a read error and logged it
HitReadError(fd) ==
    /\ relay[fd] = "error"
    /\ \/ LoggedReadError(fd, "bufio.Scanner: token too long")
       \/ LoggedReadError(fd, "read |0: file already closed")
\* the relay of fd ran until its pipe was drained, or stopped on a line of its
\* own that its Scanner could not hold
RanUntilDrained(fd) ==
    \/ pipe[fd] = <<>>
    \/ LoggedReadError(fd, "bufio.Scanner: token too long")

\* C17: when a Streaming call whose subprocess was created has returned and
\* one relay had stopped on a read error, that error was logged, the other
\* relay ran until its own pipe was drained, the subprocess was waited for,
\* and the returned error is nil exactly when the exit status is 0.
C17_ReadErrorIsolation ==
    (Returned /\ Streaming /\ Launched) =>
        \A fd \in Fds :
            relay[fd] = "error" =>
                /\ HitReadError(fd)
                /\ RanUntilDrained(Other(fd))
                /\ exited
                /\ ret.err = NoError <=> status = 0


\* two accesses to the same state by different invocations, one a write
Conflict(a, b) ==
    /\ a.name = b.name /\ a.owner = b.owner
    /\ a.by # b.by
    /\ a.kind = "write" \/ b.kind = "write"

\* C18: with several invocations running at once, each has its own
\* subprocess, no state written by one invocation is read or written by
\* another, and what an invocation returns is output of its own subprocess.
C18_Independent ==
    /\ \A i, j \in Invocations :
           (i # j /\ calls[i].proc # 0) => calls[i].proc # calls[j].proc
    /\ \A a, b \in accesses : ~Conflict(a, b)
    /\ \A i \in Invocations :
           calls[i].pc = "done" => IsPrefix(calls[i].ret, OutputOf(i))


\* the texts of the lines relayed so far for fd, in the order printed
RelayedTexts(fd) ==
    LET printed == IF fd = "out" THEN hostOut ELSE hostErr
        tag == IF fd = "out" THEN "[stdout]" ELSE "[stderr]"
        lines == SelectSeq(printed, LAMBDA r : r.tag = tag)
    IN [i \in DOMAIN lines |-> lines[i].text]
\* the texts of the lines of the byte string d
TextsOf(toks) == [i \in DOMAIN toks |-> Text(toks[i])]
\* the relayed lines of each stream are lines the script writes, in its order
RelayedInOrder ==
    \A fd \in Fds : IsPrefix(RelayedTexts(fd), TextsOf(SplitLines(Written(prog, fd))))
\* a relayed stdout line is already in the accumulation buffer
RelayedAfterBuffered ==
    IsPrefix(RelayedTexts("out"), TextsOf(SplitLines(stdoutBuf)))
\* once the call has returned, every complete line the script wrote has been relayed
AllRelayedAtReturn ==
    (Returned /\ Streaming /\ Launched) =>
        \A fd \in Fds : IsPrefix(TextsOf(Tokens(Written(prog, fd))), RelayedTexts(fd))

\* C19: in Streaming mode the lines relayed for a stream are the lines the
\* script wrote to it, in the order written; a stdout line is relayed only
\* when its bytes are in the accumulation buffer; and every complete line the
\* script wrote is relayed in the end, so all of them are by the time the
\* call returns.
C19_RealtimeRelay ==
    /\ Streaming => (RelayedInOrder /\ RelayedAfterBuffered)
    /\ AllRelayedAtReturn


\* the handler passed the request on to the execution function
Executed == request # NoRequest /\ fn = "ExecutePythonScript"
\* a ends with b
EndsWith(a, b) == Len(b) <= Len(a) /\ SubSeq(a, Len(a) - Len(b) + 1, Len(a)) = b
\* where the non-empty '&'-separated segments of the query q start
Starts(q) == {i \in DOMAIN q : q[i] # "&" /\ (i = 1 \/ q[i - 1] = "&")}
\* the k-th of them, from the left
NthStart(q, k) ==
    CHOOSE i \in Starts(q) : Cardinality({j \in Starts(q) : j < i}) = k - 1
\* the segment that starts at position b
SegmentAt(q, b) ==
    LET e == CHOOSE j \in b..Len(q) :
                 /\ \A m \in b..j : q[m] # "&"
                 /\ j = Len(q) \/ q[j + 1] = "&"
    IN SubSeq(q, b, e)
\* the Arg a segment stands for: the text before its first '=' and the text
\* after it, unescaped
ArgOf(seg) ==
    LET eqs == {i \in DOMAIN seg : seg[i] = "="}
        first == CHOOSE i \in eqs : \A j \in eqs : i <= j
        k == IF eqs = {} THEN seg ELSE SubSeq(seg, 1, first - 1)
        v == IF eqs = {} THEN <<>> ELSE SubSeq(seg, first + 1, Len(seg))
    IN [Key |-> Str(QueryUnescape(k).val), Value |-> Str(QueryUnescape(v).val)]

\* C20: when handleExecutionRequest calls the execution function, the script
\* name is the last segment of the URL path (a trailing '/' aside), and the
\* argument list has one Arg for each non-empty '&'-separated segment of the
\* raw query, in the order of the query: for k=v the unescaped k and v, for a
\* segment without '=' the unescaped segment and ""; the query
\* --name=Universe&--verbose passes --name Universe --verbose.
C20_ArgumentMapping ==
    Executed =>
        /\ rName # <<>> /\ \A i \in DOMAIN rName : rName[i] # "/"
        /\ \/ EndsWith(request.path, <<"/">> \o rName)
           \/ EndsWith(request.path, <<"/">> \o rName \o <<"/">>)
        /\ Len(rArgs) = Cardinality(Starts(request.query))
        /\ \A k \in DOMAIN rArgs :
               rArgs[k] = ArgOf(SegmentAt(request.query, NthStart(request.query, k)))
        /\ request.query = ExampleQuery =>
               /\ rArgs = << [Key |-> "--name", Value |-> "Universe"],
                             [Key |-> "--verbose", Value |-> ""] >>
               /\ Resolved =>
                      SubSeq(cmd.args, 3, Len(cmd.args)) = <<"--name", "Universe", "--verbose">>

\* a query with an empty segment, a flag and an escaped pair was passed on
C20_Witness ==
    /\ Executed /\ Resolved
    /\ request.query = EscapedQuery
    /\ rArgs = << [Key |-> "k", Value |-> ""], [Key |-> "\"", Value |-> " "] >>

\* cmd.Start failed in this call
StartFailed == HasPart(ret.err, "failed to start python script '")

\* C21: when cmd.Start fails in Streaming mode the call has returned, with nil
\* bytes and an error that names the script and the working directory; no
\* relay goroutine was started and nothing was relayed, cmd.Wait was not
\* called, and the subprocess never ran or exited.
C21_StartFailed ==
    (Streaming /\ StartFailed) =>
        /\ Returned
        /\ ret.bytes = NilBytes
        /\ HasSection(ret.err, "failed to start python script '", Str(rName))
        /\ HasSection(ret.err, "' in dir '", PathStr(Dir(rPath)))
        /\ \A fd \in Fds : relay[fd] = "none" /\ ~rdOpen[fd] /\ pipe[fd] = <<>>
        /\ hostErr = <<>> /\ stdoutBuf = <<>>
        /\ \A i \in DOMAIN hostOut : hostOut[i].tag # "[stdout]"
        /\ cmdErr = NoError
        /\ ~exited /\ ~Launched /\ prog = <<>> /\ cpos = 1

\* the interpreter is on the search path and fork/exec failed
C21_Witness ==
    /\ Returned /\ fn = "ExecutePythonScriptRealtime" /\ StartFailed
    /\ cmd.name \in pathCmds
    /\ HasPart(ret.err, ForkExecError[1])
    /\ rPath = <<"/", "d2", "h.py">>

\* the value of the variable specific to the script n, <<>> when unset
SpecificValue(n) ==
    IF ExpectedVar(n) \in DOMAIN env THEN env[ExpectedVar(n)] ELSE <<>>
\* the candidates of strategies 2 to 5 for the script n, in precedence order
LaterCandidates(n) ==
    LET c == Candidates(n) IN
    IF SpecificValue(n) # <<>> THEN Tail(c) ELSE c
\* those of them that are regular files
LaterExisting(n) == {i \in DOMAIN LaterCandidates(n) : IsFile(LaterCandidates(n)[i])}
\* the script is missing from the i-th search directory
MissingInDir(n, i) == ~IsFile(env["PYEXEC_SCRIPT_DIRS"][i] \o <<Str(n)>>)

\* C22: when the variable specific to the script is set to a path that is no
\* regular file (missing, or a directory), findScript does not return that
\* path and does not fail on it: the result is the one of strategies 2 to 5
\* alone, the first of their candidates that is a regular file or, if there
\* is none, the not-found error; and no search directory from which the
\* script is missing gives the result.
C22_FallThrough ==
    (Returned /\ fn = "findScript") =>
        /\ (SpecificValue(rName) # <<>> /\ ~IsFile(SpecificValue(rName))) =>
               /\ rErr = NoError <=> LaterExisting(rName) # {}
               /\ rErr # NoError => rPath = <<>>
               /\ rErr = NoError =>
                      LET k == CHOOSE i \in LaterExisting(rName) :
                                   \A j \in LaterExisting(rName) : i <= j
                      IN /\ Resolve(rPath) = Resolve(LaterCandidates(rName)[k])
                         /\ rPath # SpecificValue(rName)
                         /\ Resolve(rPath) # Resolve(SpecificValue(rName))
        /\ \A i \in DOMAIN env["PYEXEC_SCRIPT_DIRS"] :
               (MissingInDir(rName, i) /\ rErr = NoError) =>
                   Resolve(rPath) # Resolve(env["PYEXEC_SCRIPT_DIRS"][i] \o <<Str(rName)>>)

\* the variable names a directory, the first search directory lacks the
\* script, the second has it
C22_Witness ==
    /\ Returned /\ fn = "findScript" /\ rName = <<"h", ".", "p", "y">>
    /\ env["H_PY_PATH"] = <<"/", "e">>
    /\ env["PYEXEC_SCRIPT_DIRS"] = << <<"/", "d1">>, <<"/", "d2">> >>
    /\ files = {<<"/", "e", "s.py">>, <<"/", "d2", "h.py">>}
    /\ rPath = <<"/", "d2", "h.py">>

\* the candidate findScript matched: the first one that is a regular file
Matched(n) ==
    Candidates(n)[CHOOSE i \in Existing(n) : \A j \in Existing(n) : i <= j]
\* filepath.Abs can make p absolute: p is absolute already, or os.Getwd works
CanAbsolutize(p) == IsAbs(p) \/ getwdOK

\* C23: when findScript succeeds and the matched path can be made absolute,
\* the returned path is absolute and clean and names the matched file,
\* whichever strategy matched; when it cannot, findScript succeeds all the
\* same and returns the matched path as it is, relative.
C23_PathNormalization ==
    (Returned /\ fn = "findScript" /\ Existing(rName) # {}) =>
        /\ rErr = NoError
        /\ CanAbsolutize(Matched(rName)) =>
               /\ IsAbs(rPath) /\ rPath = Clean(rPath)
               /\ rPath = Resolve(Matched(rName))
        /\ ~CanAbsolutize(Matched(rName)) =>
               /\ rPath = Matched(rName)
               /\ ~IsAbs(rPath)

\* a match in a relative search directory while os.Getwd fails: the path is
\* returned relative
C23_Witness ==
    /\ Returned /\ fn = "findScript" /\ ~getwdOK /\ Existing(rName) # {}
    /\ env["PYEXEC_SCRIPT_DIRS"] = << <<"r">> >>
    /\ Matched(rName) = <<"r", "h.py">>
    /\ rPath = <<"r", "h.py">> /\ rErr = NoError


\* the installer command of EnsureUVInstalled
IsInstaller(c) == c.name \in {"sh", "powershell"}
\* the call failed in EnsureUVInstalled
EnsureFailed == HasPart(ret.err, "failed to ensure uv is installed: ")
\* the systems EnsureUVInstalled has an installer for
InstallerSystems == {"linux", "darwin", "windows"}

\* the step that enters a WithUV entry point
C24_Step ==
    (pc = "idle" /\ pc' # "idle" /\ Delegated') =>
        \* uv resolvable: one lookup, no installer, nothing changed
        /\ LookPathOK("uv") =>
               /\ \A i \in DOMAIN spawned' : ~IsInstaller(spawned'[i])
               /\ pathCmds' = pathCmds
               /\ ~EnsureFailed'
        \* not resolvable, no installer for this system
        /\ (~LookPathOK("uv") /\ goos \notin InstallerSystems) =>
               /\ EnsureFailed'
               /\ HasPart(ret'.err, "unsupported operating system: ")
               /\ spawned' = <<>>
        \* not resolvable: the installer is the first command launched
        /\ (~LookPathOK("uv") /\ goos \in InstallerSystems) =>
               /\ spawned' # <<>> /\ IsInstaller(spawned'[1])
               /\ \A i \in DOMAIN spawned' : i > 1 => ~IsInstaller(spawned'[i])
        /\ HasPart(ret'.err, "failed to install uv: ") => EnsureFailed'
        \* a failure of the precondition: the call has returned the error and
        \* neither searched for the script nor run it
        /\ EnsureFailed' =>
               /\ pc' = "returned" /\ ret'.bytes = NilBytes
               /\ rPath' = <<>> /\ rErr' = NoError
               /\ cmd' = NoCmd /\ prog' = <<>>
               /\ \A i \in DOMAIN spawned' : IsInstaller(spawned'[i])

\* C24: a WithUV call runs EnsureUVInstalled before anything else; with uv
\* resolvable it launches no installer and changes nothing; when the
\* installer fails or the system has none the call returns an error and the
\* script is neither searched for nor run.
C24_DelegatedPrecondition == [][C24_Step]_vars

\* the installer ran and failed
C24_Witness ==
    /\ Returned /\ Delegated /\ goos = "linux"
    /\ Len(spawned) = 1 /\ IsInstaller(spawned[1])
    /\ HasPart(ret.err, "failed to install uv: ")
    /\ cmd = NoCmd


\* the call could not resolve its script
Unresolved == (Direct \/ Delegated) /\ rErr # NoError

\* C25: in every mode, when the script cannot be resolved the call has
\* returned nil bytes and an error wrapping the not-found error, and has
\* launched no subprocess: no interpreter, no uv and no installer.
C25_ResolutionFailureFirst ==
    Unresolved =>
        /\ Returned /\ ret.bytes = NilBytes
        /\ HasPart(ret.err, "failed to find python script: ")
        /\ IsPrefix(rErr, SubSeq(ret.err, 2, Len(ret.err)))
        /\ cmd = NoCmd /\ prog = <<>>
        /\ spawned = <<>>


\* a step of the subprocess, of a relay goroutine, of cmd.Wait or of wg.Wait
StreamingStep ==
    \/ ChildWrite
    \/ ChildExit
    \/ \E fd \in Fds : RelayReadData(fd) \/ RelayReadEOF(fd) \/ RelayReadClosed(fd)
    \/ WaitReturns
    \/ JoinReturns

\* C26: a Streaming invocation that has started its subprocess and has not
\* returned is never stuck: the subprocess, a relay goroutine, cmd.Wait or
\* wg.Wait can take a step, so that the invocation goes on to return; this
\* includes the states where a relay goroutine has stopped on a read error.
C26_StreamingTermination ==
    (Streaming /\ pc \in {"running", "waited"}) => ENABLED StreamingStep


\* the step writes stdoutBuf
WritesBuffer == stdoutBuf' # stdoutBuf
\* the step is the caller's read of stdoutBuf: stdoutBuf.Bytes() at the return
ReadsBuffer == Streaming /\ pc = "waited" /\ pc' = "returned"

\* a step of a Streaming invocation
C27_Step ==
    \* a write is the stdout relay's: it appends what that relay takes from the
    \* stdout pipe, and is not a step of the stderr relay or of the caller
    /\ WritesBuffer =>
           /\ Streaming /\ relay["out"] = "reading" /\ rdOpen["out"]
           /\ \E k \in 1..Len(pipe["out"]) :
                  /\ stdoutBuf' = stdoutBuf \o SubSeq(pipe["out"], 1, k)
                  /\ pipe'["out"] = SubSeq(pipe["out"], k + 1, Len(pipe["out"]))
           /\ pipe'["err"] = pipe["err"] /\ relay'["err"] = relay["err"]
           /\ scanBuf'["err"] = scanBuf["err"]
           /\ pc' = pc /\ ret' = ret
    \* the read comes after the join: both relays have ended, and no write
    \* shares the step or follows it
    /\ ReadsBuffer =>
           /\ \A f \in Fds : RelayDone(f)
           /\ ~WritesBuffer
           /\ ret'.bytes = BufferBytes(stdoutBuf)
    /\ (\A f \in Fds : RelayDone(f)) => ~WritesBuffer
    /\ Returned => ~WritesBuffer

\* C27: in a Streaming invocation stdoutBuf is written by the stdout relay
\* only, never by the stderr relay or the caller, and the caller reads it
\* only after both relays have ended, after which it is never written.
C27_BufferRaceFree == [][C27_Step]_vars

\* the caller has read the buffer the stdout relay filled over several reads
C27_Witness ==
    /\ Returned /\ Streaming /\ Launched
    /\ \A f \in Fds : RelayDone(f)
    /\ Len(stdoutBuf) >= 3
    /\ hostErr # <<>>
    /\ ret.bytes = BufferBytes(stdoutBuf)


\* the handler has answered a request
Answered == response # NoResponse
\* the path without one trailing slash
TrimmedPath(p) == IF p # <<>> /\ p[Len(p)] = "/" THEN SubSeq(p, 1, Len(p) - 1) ELSE p
\* the path has no script name after its last slash
NoScriptName(p) == TrimmedPath(p) = <<>> \/ TrimmedPath(p)[Len(TrimmedPath(p))] = "/"
\* the raw query has a '%' that two hexadecimal digits do not follow
BadEscape(q) ==
    \E i \in DOMAIN q :
        /\ q[i] = "%"
        /\ ~(i + 2 <= Len(q) /\ q[i + 1] \in HexDigits /\ q[i + 2] \in HexDigits)
\* the execution function was not called: the call state is the initial one
NeverCalled ==
    /\ fn = "" /\ rName = <<>> /\ rPath = <<>> /\ cmd = NoCmd
    /\ spawned = <<>> /\ prog = <<>> /\ ~exited
    /\ ret = [bytes |-> NilBytes, err |-> NoError]
    /\ hostOut = <<>> /\ hostErr = <<>>

\* C28: a request whose path has no script name, or whose query has a key or
\* value that fails unescaping, is answered with a bad-request error without
\* the execution function being called, whatever well-formed parameters come
\* first; an error of the execution function is answered with an
\* internal-server error, and a success body only when it returned no error.
C28_RejectionLeavesExecutionUntouched ==
    Answered =>
        /\ (NoScriptName(request.path) \/ BadEscape(request.query)) =>
               response.code = 400
        /\ response.code = 400 => Returned /\ NeverCalled
        /\ response.code # 400 => fn = "ExecutePythonScript" /\ Returned
        /\ (fn # "" /\ ret.err # NoError) =>
               /\ response.code = 500
               /\ response.body = BufferBytes(<<"Failed to execute script: ">> \o ret.err)
        /\ response.code = 200 => ret.err = NoError /\ response.body = ret.bytes
        /\ response.code \in {200, 400, 500}

\* a well-formed flag followed by a truncated escape: rejected, nothing called
C28_Witness ==
    /\ Answered /\ response.code = 400 /\ NeverCalled
    /\ request.path = <<"/", "execute", "/", "h", ".", "p", "y">>
    /\ request.query = <<"k", "&", "%", "2">>
    /\ files # {}

=============================================================================
